---------------------------- MODULE Spec2Model ----------------------------
(***************************************************************************)
(* Library Reconciliation Engine of adamkurth/scripts-general:             *)
(*   src/liberate-update-metadata.py                    (catalog walker)   *)
(*   src/ipod-classic/audiobooks-update-metadata-from-mp3.py (tag walker)  *)
(*   src/ipod-classic/delete-audiobooks-in-music-path.py    (prune)        *)
(*                                                                         *)
(* Python strings are modelled as sequences of one-character strings, so   *)
(* that lower(), re.sub, split/join, `in` and splitext are computed rather *)
(* than assumed.                                                           *)
(***************************************************************************)
EXTENDS Integers, Sequences, FiniteSets, TLC

VARIABLES
    \* ---- clean_string driver
    arg,                \* the argument handed to clean_string: [none, s]
    out1,               \* clean_string(arg)
    out2,               \* clean_string(out1)
    npc                 \* "start" -> "once" -> "twice"

normVars == <<arg, out1, out2, npc>>

VARIABLES
    \* ---- the catalog (liberation-library.csv)
    csv_rows,           \* the rows csv.DictReader yields, in file order
    audiobooks          \* process_audiobooks' dict, in insertion order

catVars == <<csv_rows, audiobooks>>

VARIABLES
    \* ---- find_matching_audiobook driver
    filepath,           \* the path handed to find_matching_audiobook
    book_key,           \* what it returned: [none, s]
    rpc                 \* "load" -> "resolve" -> "done"

resVars == <<filepath, book_key, rpc>>

VARIABLES
    \* ---- the library walk (organize_file / process_audiobooks)
    engine,             \* "organize" (ipod-classic script) or "liberate"
    mp3_files,          \* the paths the traversal yields, in order
    src_tags,           \* the tag container of each source file
    index,              \* how many of mp3_files have been visited
    dest,               \* files under audiobooks_dir: path -> [origin, tags]
    dest_dirs,          \* directories under audiobooks_dir
    processed_files,    \* the processed list
    skipped_files,      \* the skipped list
    processed_artists,  \* the set of processed artists
    copy_log,           \* every shutil.copy2 that wrote: [src, path, existed]
    fusions,            \* every completed tag fusion: [src, path, input, output]
    faults,             \* per visited file: did a step raise?
    wpc                 \* "load" -> "walk" -> "done"

walkVars == <<engine, mp3_files, src_tags, index, dest, dest_dirs, processed_files,
              skipped_files, processed_artists, copy_log, fusions, faults, wpc>>

VARIABLES
    \* ---- the prune run (delete-audiobooks-in-music-path.py)
    music_path_exists,  \* os.path.exists(cleaner.music_path)
    csv_file,           \* liberation-library.csv: "missing", "bad" or "ok"
    music_before,       \* the entries of the music folder when the run starts
    music_now,          \* its entries now, each [name, isdir], in listdir order
    authors_to_remove,  \* the author-variant set
    folders_to_remove,  \* scan_folders' result, held by main
    removed_folders,    \* the first bookkeeping list
    skipped_folders,    \* the second bookkeeping list
    response,           \* what the user typed at the prompt
    pos,                \* how many candidates remove_folders' loop has handled
    ppc                 \* where main is

pruneVars == <<music_path_exists, csv_file, music_before, music_now, authors_to_remove,
               folders_to_remove, removed_folders, skipped_folders, response, pos, ppc>>

VARIABLES
    \* ---- several organize runs at once on one audiobooks_dir
    walkers             \* per process: where it is in organize_file and its locals

raceVars == <<walkers>>

vars == <<normVars, catVars, resVars, walkVars, pruneVars, raceVars>>

-----------------------------------------------------------------------------
(* Bounds of the model *)

\* longest argument string enumerated for clean_string
MaxLen == 3

\* longest catalog title enumerated for the resolver
MaxTitleLen == 1

\* most catalog rows enumerated for the resolver
MaxRows == 2

\* most files one traversal yields
MaxFiles == 2

\* most entries the music folder holds
MaxDirs == 2

-----------------------------------------------------------------------------
(* Characters and strings *)

UpperChars == <<"A","B","C","D","E","F","G","H","I","J","K","L","M",
                "N","O","P","Q","R","S","T","U","V","W","X","Y","Z">>

LowerChars == <<"a","b","c","d","e","f","g","h","i","j","k","l","m",
                "n","o","p","q","r","s","t","u","v","w","x","y","z">>

Digits == <<"0","1","2","3","4","5","6","7","8","9">>

Range(f) == {f[i] : i \in DOMAIN f}

\* the characters \w matches
WordChars == Range(UpperChars) \cup Range(LowerChars) \cup Range(Digits) \cup {"_"}

\* the characters \s matches and str.split() splits on
Whitespace == {" ", "\t", "\n", "\r"}

\* str.lower() on one character
LowerChar(c) ==
    IF c \in Range(UpperChars)
    THEN LowerChars[CHOOSE i \in DOMAIN UpperChars : UpperChars[i] = c]
    ELSE c

\* str.lower()
Lower(s) == [i \in DOMAIN s |-> LowerChar(s[i])]

\* re.sub(r'[^\w\s]', '', s): delete what is neither a word character nor whitespace
StripPunct(s) == SelectSeq(s, LAMBDA c : c \in WordChars \cup Whitespace)

\* str.split() with no argument: the maximal runs of non-whitespace
RECURSIVE SplitFrom(_, _, _)
SplitFrom(s, cur, acc) ==
    IF s = <<>>
    THEN IF cur = <<>> THEN acc ELSE Append(acc, cur)
    ELSE IF Head(s) \in Whitespace
         THEN SplitFrom(Tail(s), <<>>, IF cur = <<>> THEN acc ELSE Append(acc, cur))
         ELSE SplitFrom(Tail(s), Append(cur, Head(s)), acc)

Split(s) == SplitFrom(s, <<>>, <<>>)

\* sep.join(parts)
RECURSIVE Join(_, _)
Join(sep, parts) ==
    IF parts = <<>> THEN <<>>
    ELSE IF Len(parts) = 1 THEN parts[1]
    ELSE parts[1] \o sep \o Join(sep, Tail(parts))

\* ' '.join(s.split())
CollapseSpaces(s) == Join(<<" ">>, Split(s))

\* a in b, for strings
IsSubstring(a, b) ==
    \E i \in 0..(Len(b) - Len(a)) : SubSeq(b, i + 1, i + Len(a)) = a

\* b.endswith(a)
EndsWith(b, a) ==
    /\ Len(a) <= Len(b)
    /\ SubSeq(b, Len(b) - Len(a) + 1, Len(b)) = a

\* all strings over the alphabet A of length at most n
StringsUpTo(A, n) == UNION {[1..k -> A] : k \in 0..n}

-----------------------------------------------------------------------------
(* clean_string *)

\* a Python value that is a str or None
Some(s) == [none |-> FALSE, s |-> s]
NoneValue == [none |-> TRUE, s |-> <<>>]

\* `not s` for a str-or-None
Falsy(v) == v.none \/ v.s = <<>>

\* a plausible slip: whitespace collapsed before the punctuation is deleted
clean_string_collapse_first(v) ==
    IF Falsy(v) THEN <<>> ELSE StripPunct(CollapseSpaces(Lower(v.s)))

\* a plausible slip: punctuation replaced by a space instead of deleted
clean_string_punct_to_space(v) ==
    IF Falsy(v) THEN <<>>
    ELSE CollapseSpaces([i \in DOMAIN v.s |->
            IF Lower(v.s)[i] \in WordChars \cup Whitespace THEN Lower(v.s)[i] ELSE " "])

clean_string(v) ==
    IF Falsy(v) THEN <<>> ELSE CollapseSpaces(StripPunct(Lower(v.s)))

-----------------------------------------------------------------------------
(* The catalog: csv rows and the dict process_audiobooks builds from them *)

Row(title, authors, narrators, series) ==
    [Title |-> title, Authors |-> authors, Narrators |-> narrators,
     SeriesNames |-> series, SeriesOrder |-> <<>>]

\* the value stored per key
BookOf(row) ==
    [title |-> row.Title, author |-> row.Authors, narrator |-> row.Narrators,
     series |-> row.SeriesNames, series_order |-> row.SeriesOrder]

\* A Python dict keeps insertion order; assigning to a key already present
\* replaces the value and keeps the key's position.  The dict is a sequence
\* of [key, book] entries with pairwise distinct keys.
HasKey(d, k) == \E i \in DOMAIN d : d[i].key = k

DictGet(d, k) == d[CHOOSE i \in DOMAIN d : d[i].key = k].book

\* a plausible slip: a key already present keeps its first value
DictSet_keep_first(d, k, b) ==
    IF HasKey(d, k) THEN d ELSE Append(d, [key |-> k, book |-> b])

DictSet(d, k, b) ==
    IF HasKey(d, k)
    THEN [i \in DOMAIN d |-> IF d[i].key = k THEN [key |-> k, book |-> b] ELSE d[i]]
    ELSE Append(d, [key |-> k, book |-> b])

\* the loop over the csv rows
RECURSIVE LoadRows(_, _)
LoadRows(rows, d) ==
    IF rows = <<>> THEN d
    ELSE LoadRows(Tail(rows),
                  DictSet(d, clean_string(Some(Head(rows).Title)), BookOf(Head(rows))))

-----------------------------------------------------------------------------
(* find_matching_audiobook *)

\* os.path.basename and os.path.dirname on a path held as its components
Basename(path) == IF path = <<>> THEN <<>> ELSE path[Len(path)]
Dirname(path) == IF path = <<>> THEN <<>> ELSE SubSeq(path, 1, Len(path) - 1)

Strategy1(clean_title, clean_author, clean_filename, clean_parent) ==
    IsSubstring(clean_title, clean_filename) /\ IsSubstring(clean_author, clean_parent)

\* a plausible slip: the title alone must be the whole file name
Strategy2_whole_name(clean_title, clean_author, clean_filename, clean_parent) ==
    clean_title = clean_filename

Strategy2(clean_title, clean_author, clean_filename, clean_parent) ==
    IsSubstring(clean_title, clean_filename)

\* a plausible slip: the author directory alone decides
Strategy3_author_only(clean_title, clean_author, clean_filename, clean_parent) ==
    IsSubstring(clean_author, clean_parent)

Strategy3(clean_title, clean_author, clean_filename, clean_parent) ==
    IsSubstring(clean_author, clean_parent) /\ IsSubstring(clean_title, clean_filename)

\* the body of the for loop for one entry: does it return this key?
EntryMatches(entry, clean_filename, clean_parent) ==
    LET clean_title == clean_string(Some(entry.book.title))
        clean_author == clean_string(Some(entry.book.author))
    IN \/ Strategy1(clean_title, clean_author, clean_filename, clean_parent)
       \/ Strategy2(clean_title, clean_author, clean_filename, clean_parent)
       \/ Strategy3(clean_title, clean_author, clean_filename, clean_parent)

find_matching_audiobook(path, books) ==
    LET clean_filename == clean_string(Some(Basename(path)))
        clean_parent == clean_string(Some(Basename(Dirname(path))))
        hits == {i \in DOMAIN books : EntryMatches(books[i], clean_filename, clean_parent)}
    IN IF hits = {} THEN NoneValue
       ELSE Some(books[CHOOSE i \in hits : \A j \in hits : i <= j].key)

-----------------------------------------------------------------------------
(* ID3 tag containers (mutagen) *)

\* A frame key is <<frame id, rest of the hash key>>: mutagen's keys are the
\* four-character frame id, followed by ":<description>" where the frame has
\* one ("CHAP:ch0", "TXXX:note").  key.startswith('CHAP') inspects the id.
Key(id) == <<id, "">>

StartsWith(key, prefix) == key[1] = prefix

EmptyFrames == [k \in {} |-> <<>>]

\* an ID3 object, or None
ID3Of(frames) == [none |-> FALSE, frames |-> frames]
NoneID3 == [none |-> TRUE, frames |-> EmptyFrames]

\* truth value of an ID3-or-None: mutagen's ID3 is dict-like and defines
\* __len__, so an ID3 object without frames is falsy, as None is
Truthy(m) == ~m.none /\ DOMAIN m.frames # {}

\* ID3.add: the frame replaces one of the same key
AddFrame(frames, key, value) == (key :> value) @@ frames

\* audio.get(id, [default])[0]
GetText(frames, id, default) ==
    IF Key(id) \in DOMAIN frames THEN frames[Key(id)][1] ELSE default

UnknownTitle == <<"U","n","k","n","o","w","n"," ","T","i","t","l","e">>
UnknownArtist == <<"U","n","k","n","o","w","n"," ","A","r","t","i","s","t">>
UnknownAlbum == <<"U","n","k","n","o","w","n"," ","A","l","b","u","m">>
Audiobook == <<"A","u","d","i","o","b","o","o","k">>
SeriesSep == <<" ","-"," ">>

\* the file's tag state on disk: has it an ID3 header, and which frames
TagsOnDisk(header, frames) == [header |-> header, frames |-> frames]

\* get_metadata: [metadata, what the file holds afterwards].  `save_fails`
\* says whether audio.save(filepath) of the fresh container raises.
get_metadata(st, save_fails) ==
    IF st.header
    THEN [metadata |-> ID3Of(st.frames), disk |-> st]
    ELSE IF save_fails
         THEN [metadata |-> NoneID3, disk |-> st]
         ELSE [metadata |-> ID3Of(EmptyFrames), disk |-> TagsOnDisk(TRUE, EmptyFrames)]

\* get_book_info, for metadata that is not falsy
get_book_info(metadata) ==
    [title |-> GetText(metadata.frames, "TIT2", UnknownTitle),
     artist |-> GetText(metadata.frames, "TPE1", UnknownArtist),
     album |-> GetText(metadata.frames, "TALB", UnknownAlbum)]

\* a plausible slip: only chapter frames are carried over
IsChapterFrame_chap_only(key) == StartsWith(key, "CHAP")

\* a plausible slip: every frame is carried over
IsChapterFrame_all(key) == TRUE

\* is this one of the frames the loop copies into new_tags?
IsChapterFrame(key) == StartsWith(key, "CHAP") \/ StartsWith(key, "CTOC")

\* update_audiobook_metadata: new_tags, built from the container `audio`
update_audiobook_metadata(audio) ==
    LET title == GetText(audio, "TIT2", UnknownTitle)
        artist == GetText(audio, "TPE1", UnknownArtist)
        album == GetText(audio, "TALB", title)
        kept == [k \in {k \in DOMAIN audio : IsChapterFrame(k)} |-> audio[k]]
        t1 == AddFrame(kept, Key("TIT2"), <<title>>)
        t2 == AddFrame(t1, Key("TPE1"), <<artist>>)
        t3 == AddFrame(t2, Key("TALB"), <<album>>)
        t4 == AddFrame(t3, Key("TCON"), <<Audiobook>>)
        t5 == AddFrame(t4, Key("TMED"), <<Audiobook>>)
    IN AddFrame(t5, Key("TCMP"), <<<<"1">>>>)

\* process_audiobooks, the EasyID3 assignments: they set frames of the container
\* loaded from the file and leave its other frames in place
EasyUpdate(audio, book) ==
    LET t1 == AddFrame(audio, Key("TIT2"), <<book.title>>)
        t2 == AddFrame(t1, Key("TPE1"), <<book.author>>)
        t3 == AddFrame(t2, Key("TPE2"), <<book.narrator>>)
        t4 == AddFrame(t3, Key("TALB"), <<book.title>>)
        t5 == AddFrame(t4, Key("TCON"), <<Audiobook>>)
        t6 == AddFrame(t5, Key("TCOM"), <<book.narrator>>)
    IN IF book.series # <<>>
       THEN AddFrame(t6, Key("TALB"), <<book.series \o SeriesSep \o book.title>>)
       ELSE t6

\* process_audiobooks, the additional ID3 tags
AddMediaTags(audio) ==
    AddFrame(AddFrame(audio, Key("TMED"), <<Audiobook>>), Key("TCMP"), <<<<"1">>>>)

-----------------------------------------------------------------------------
(* Destination paths *)

\* os.path.splitext on a file name: split at the last dot, unless only dots
\* come before it
SplitExt(name) ==
    LET dots == {i \in DOMAIN name : name[i] = "."}
    IN IF dots = {} THEN <<name, <<>>>>
       ELSE LET k == CHOOSE i \in dots : \A j \in dots : j <= i
            IN IF \A j \in 1..(k - 1) : name[j] = "."
               THEN <<name, <<>>>>
               ELSE <<SubSeq(name, 1, k - 1), SubSeq(name, k, Len(name))>>

\* str(n) for n >= 0
RECURSIVE IntToStr(_)
IntToStr(n) ==
    IF n < 10 THEN <<Digits[n + 1]>>
    ELSE IntToStr(n \div 10) \o <<Digits[(n % 10) + 1]>>

\* os.path.exists under audiobooks_dir
\* a plausible slip: the name is taken to be free without looking
Exists_never(path) == FALSE

Exists(path) == path \in DOMAIN dest \/ path \in dest_dirs

\* organize_file's while loop, entered with new_filepath and counter
RECURSIVE ScanFree(_, _, _, _)
ScanFree(book_dir, filename, new_filepath, counter) ==
    IF ~Exists(new_filepath) THEN new_filepath
    ELSE LET base == SplitExt(filename)[1]
             ext == SplitExt(filename)[2]
         IN ScanFree(book_dir, filename,
                     book_dir \o <<base \o <<"_">> \o IntToStr(counter) \o ext>>,
                     counter + 1)

\* organize_file: the path the file is copied to
OrganizeTarget(book_dir, filename) ==
    ScanFree(book_dir, filename, book_dir \o <<filename>>, 1)

\* process_audiobooks: the path the file is copied to
LiberateTarget(book_dir, file) == book_dir \o <<file>>

\* shutil.copy2 of source file i: the content lands at path, replacing what is there
CopyTo(d, path, i) == (path :> [origin |-> i, tags |-> src_tags[i]]) @@ d

\* tag save at the destination
WriteTags(d, path, frames) ==
    [d EXCEPT ![path] = [origin |-> d[path].origin, tags |-> TagsOnDisk(TRUE, frames)]]

-----------------------------------------------------------------------------
(* The library walk *)

\* the walk's mutable state, as one record
Now ==
    [src |-> src_tags, dest |-> dest, dirs |-> dest_dirs,
     processed |-> processed_files, skipped |-> skipped_files,
     artists |-> processed_artists, log |-> copy_log, fusions |-> fusions]

\* skipped_files.append(item), in the handlers of a failed file
\* a plausible slip: the failure is swallowed without a record
RecordSkipped_swallow(w, item) == w

RecordSkipped(w, item) == [w EXCEPT !.skipped = Append(@, item)]

\* processed_files.append(item)
RecordProcessed(w, item) == [w EXCEPT !.processed = Append(@, item)]

\* the state after shutil.copy2 wrote source file i to path
Copied(w, path, i) ==
    [w EXCEPT !.dest = CopyTo(w.dest, path, i),
              !.log = Append(@, [src |-> i, path |-> path,
                                 existed |-> path \in DOMAIN w.dest])]

\* the steps of organize_file that can raise for source file i
OrganizeFaults(i) ==
    IF ~src_tags[i].header
    THEN {"none", "create_tags"}
    ELSE IF src_tags[i].frames = EmptyFrames
         THEN {"none"}
         ELSE {"none", "mkdir_artist", "mkdir_book", "copy_early", "copy_late",
               "save_tags"}

\* organize_file(mp3_files[i]), with `fault` the step that raises
organize_file(i, fault) ==
    LET source_path == mp3_files[i]
        got == get_metadata(src_tags[i], fault = "create_tags")
        metadata == got.metadata
        w0 == [Now EXCEPT !.src[i] = got.disk]
    IN IF ~Truthy(metadata) THEN RecordSkipped(w0, source_path)
       ELSE
       LET book_info == get_book_info(metadata)
           artist_dir == <<book_info.artist>>
           book_dir == <<book_info.artist, book_info.album>>
           filename == Basename(source_path)
           new_filepath == OrganizeTarget(book_dir, filename)
           w1 == [w0 EXCEPT !.dirs = @ \cup {artist_dir}]
           w2 == [w1 EXCEPT !.dirs = @ \cup {book_dir}]
           w3 == Copied(w2, new_filepath, i)
           new_tags == update_audiobook_metadata(metadata.frames)
           w4 == [w3 EXCEPT !.dest = WriteTags(@, new_filepath, new_tags),
                            !.artists = @ \cup {book_info.artist},
                            !.fusions = Append(@, [src |-> i, path |-> new_filepath,
                                                   input |-> metadata.frames,
                                                   output |-> new_tags])]
       IN CASE fault = "mkdir_artist" -> RecordSkipped(w0, source_path)
            [] fault = "mkdir_book" -> RecordSkipped(w1, source_path)
            [] fault = "copy_early" -> RecordSkipped(w2, source_path)
            [] fault = "copy_late" -> RecordSkipped(w3, source_path)
            [] fault = "save_tags" -> RecordSkipped(w3, source_path)
            [] OTHER -> RecordProcessed(w4, source_path)

\* file.lower().endswith('.mp3')
dot_mp3 == <<".","m","p","3">>
IsMp3(file) == EndsWith(Lower(file), dot_mp3)

\* `if book_key:` - None and the empty string are both falsy
MatchOf(path) == find_matching_audiobook(path, audiobooks)

\* the steps of the loop body of process_audiobooks that can raise for file i
LiberateFaults(i) ==
    IF Falsy(MatchOf(mp3_files[i]))
    THEN {"none"}
    ELSE {"none", "mkdir_author", "mkdir_book", "copy_early", "copy_late",
          "save_tags", "save_full"}
         \cup (IF src_tags[i].header THEN {"read_tags"} ELSE {"type_unknown"})

\* the loop body of process_audiobooks for an .mp3 file i, with `fault` the step
\* that raises ("type_unknown": mutagen.File returns None, and the save() of
\* the EasyID3 made without a file name then raises)
process_file(i, fault) ==
    LET path == mp3_files[i]
        file == Basename(path)
        key == MatchOf(path)
    IN IF Falsy(key) THEN [Now EXCEPT !.skipped = Append(@, file)]
       ELSE
       LET book == DictGet(audiobooks, key.s)
           author_dir == <<book.author>>
           book_dir == <<book.author, book.title>>
           new_filepath == LiberateTarget(book_dir, file)
           w1 == [Now EXCEPT !.dirs = @ \cup {author_dir}]
           w2 == [w1 EXCEPT !.dirs = @ \cup {book_dir}]
           w3 == Copied(w2, new_filepath, i)
           audio == src_tags[i].frames
           easy == EasyUpdate(audio, book)
           full == AddMediaTags(easy)
           \* audio = EasyID3(); audio.save(new_filepath)
           w3n == [w3 EXCEPT !.dest = WriteTags(@, new_filepath, EmptyFrames)]
           w4 == [w3 EXCEPT !.dest = WriteTags(@, new_filepath, easy)]
           w5 == [w4 EXCEPT !.dest = WriteTags(@, new_filepath, full),
                            !.fusions = Append(@, [src |-> i, path |-> new_filepath,
                                                   input |-> audio, output |-> full])]
       IN CASE fault = "mkdir_author" -> RecordSkipped(Now, file)
            [] fault = "mkdir_book" -> RecordSkipped(w1, file)
            [] fault = "copy_early" -> RecordSkipped(w2, file)
            [] fault = "copy_late" -> RecordSkipped(w3, file)
            [] fault = "read_tags" -> RecordSkipped(w3, file)
            [] fault = "type_unknown" -> RecordSkipped(w3n, file)
            [] fault = "save_tags" -> RecordSkipped(w3, file)
            [] fault = "save_full" -> RecordSkipped(w4, file)
            [] OTHER -> RecordProcessed(w5, file)

\* the walk's variables take the values of w
Becomes(w) ==
    /\ src_tags' = w.src
    /\ dest' = w.dest
    /\ dest_dirs' = w.dirs
    /\ processed_files' = w.processed
    /\ skipped_files' = w.skipped
    /\ processed_artists' = w.artists
    /\ copy_log' = w.log
    /\ fusions' = w.fusions

\* process_audiobooks up to the walk: the catalog is read (a csv file that
\* cannot be read ends the run before any file is visited)
LoadCatalog ==
    /\ engine = "liberate"
    /\ wpc = "load"
    /\ audiobooks' = LoadRows(csv_rows, <<>>)
    /\ wpc' = "walk"
    /\ UNCHANGED <<engine, mp3_files, src_tags, index, dest, dest_dirs, processed_files,
                   skipped_files, processed_artists, copy_log, fusions, faults>>
    /\ UNCHANGED <<csv_rows, normVars, resVars, pruneVars, raceVars>>

\* process_libation_folder: one iteration of the loop
OrganizeFile ==
    /\ engine = "organize"
    /\ wpc = "walk"
    /\ index < Len(mp3_files)
    /\ \E fault \in OrganizeFaults(index + 1) :
         /\ LET w == organize_file(index + 1, fault) IN Becomes(w)
         /\ faults' = Append(faults, fault # "none")
    /\ index' = index + 1
    /\ UNCHANGED <<engine, mp3_files, wpc, catVars, normVars, resVars, pruneVars, raceVars>>

\* process_audiobooks: a file os.walk yields that is no .mp3 is passed over
PassOver ==
    /\ engine = "liberate"
    /\ wpc = "walk"
    /\ index < Len(mp3_files)
    /\ ~IsMp3(Basename(mp3_files[index + 1]))
    /\ index' = index + 1
    /\ faults' = Append(faults, FALSE)
    /\ UNCHANGED <<engine, mp3_files, src_tags, dest, dest_dirs, processed_files,
                   skipped_files, processed_artists, copy_log, fusions, wpc>>
    /\ UNCHANGED <<catVars, normVars, resVars, pruneVars, raceVars>>

\* process_audiobooks: one .mp3 file
LiberateFile ==
    /\ engine = "liberate"
    /\ wpc = "walk"
    /\ index < Len(mp3_files)
    /\ IsMp3(Basename(mp3_files[index + 1]))
    /\ \E fault \in LiberateFaults(index + 1) :
         /\ LET w == process_file(index + 1, fault) IN Becomes(w)
         /\ faults' = Append(faults, fault # "none")
    /\ index' = index + 1
    /\ UNCHANGED <<engine, mp3_files, wpc, catVars, normVars, resVars, pruneVars, raceVars>>

\* the loop is over: the summary is printed
WalkEnd ==
    /\ wpc = "walk"
    /\ index = Len(mp3_files)
    /\ wpc' = "done"
    /\ UNCHANGED <<engine, mp3_files, src_tags, index, dest, dest_dirs, processed_files,
                   skipped_files, processed_artists, copy_log, fusions, faults>>
    /\ UNCHANGED <<catVars, normVars, resVars, pruneVars, raceVars>>

-----------------------------------------------------------------------------
(* The prune run *)

\* s.split(sep) for a one-character sep: empty pieces are kept
RECURSIVE SplitOnFrom(_, _, _, _)
SplitOnFrom(s, sep, cur, acc) ==
    IF s = <<>> THEN Append(acc, cur)
    ELSE IF Head(s) = sep
         THEN SplitOnFrom(Tail(s), sep, <<>>, Append(acc, cur))
         ELSE SplitOnFrom(Tail(s), sep, Append(cur, Head(s)), acc)

SplitOn(s, sep) == SplitOnFrom(s, sep, <<>>, <<>>)

\* s.strip()
RECURSIVE LStrip(_)
LStrip(s) == IF s # <<>> /\ Head(s) \in Whitespace THEN LStrip(Tail(s)) ELSE s

RECURSIVE RStrip(_)
RStrip(s) ==
    IF s # <<>> /\ s[Len(s)] \in Whitespace THEN RStrip(SubSeq(s, 1, Len(s) - 1)) ELSE s

Strip(s) == RStrip(LStrip(s))

\* s.replace(c, '')
Remove(s, c) == SelectSeq(s, LAMBDA x : x # c)

\* the names one Authors field adds to authors_to_remove
AuthorVariants(field) ==
    UNION {LET clean_author == Strip(SplitOn(field, ",")[k])
           IN IF clean_author = <<>> THEN {}
              ELSE {clean_author, Lower(clean_author), Remove(clean_author, "."),
                    Remove(clean_author, ",")}
           : k \in DOMAIN SplitOn(field, ",")}

\* load_authors_from_csv, for a readable file
load_authors_from_csv(rows) == UNION {AuthorVariants(rows[i].Authors) : i \in DOMAIN rows}

\* the variations should_remove_folder tries
Variations(folder_name) ==
    LET folder_clean == Strip(folder_name)
        folder_lower == Lower(folder_clean)
    IN {folder_clean, folder_lower, Remove(folder_clean, "."), Remove(folder_clean, ","),
        StripPunct(folder_lower)}

\* a plausible slip: an author's name occurring inside the folder's name counts
should_remove_folder_substring(folder_name, authors) ==
    \E var \in Variations(folder_name) : \E a \in authors : IsSubstring(a, var)

should_remove_folder(folder_name, authors) ==
    \E var \in Variations(folder_name) : var \in authors

\* scan_folders: the matching directories, in listdir order
scan_folders(listing, authors) ==
    LET music_dirs == SelectSeq(listing, LAMBDA e : e.isdir)
        hits == SelectSeq(music_dirs, LAMBDA e : should_remove_folder(e.name, authors))
    IN [i \in DOMAIN hits |-> hits[i].name]

\* shutil.rmtree(folder_path)
Rmtree(listing, name) == SelectSeq(listing, LAMBDA e : e.name # name)

HasDir(listing, name) == \E i \in DOMAIN listing : listing[i].name = name /\ listing[i].isdir

\* one iteration of remove_folders' loop; `fails` says whether rmtree raises
\* a plausible slip: the dry_run flag is not consulted
remove_one_ignore_flag(p, folder, dry_run, fails) ==
    IF fails \/ ~HasDir(p.listing, folder)
    THEN [p EXCEPT !.skipped = Append(@, folder)]
    ELSE [p EXCEPT !.listing = Rmtree(@, folder), !.removed = Append(@, folder)]

remove_one(p, folder, dry_run, fails) ==
    IF dry_run THEN [p EXCEPT !.removed = Append(@, folder)]
    ELSE IF fails \/ ~HasDir(p.listing, folder)
         THEN [p EXCEPT !.skipped = Append(@, folder)]
         ELSE [p EXCEPT !.listing = Rmtree(@, folder), !.removed = Append(@, folder)]

\* response.lower() == 'y'
Confirmed(r) == Lower(r) = <<"y">>

\* main, from its start to the end of load_authors_from_csv
PruneStart ==
    /\ ppc = "start"
    /\ IF ~music_path_exists
       THEN ppc' = "exit_no_music" /\ UNCHANGED authors_to_remove
       ELSE IF csv_file = "missing"
            THEN ppc' = "exit_no_csv" /\ UNCHANGED authors_to_remove
            ELSE IF csv_file = "bad"
                 THEN ppc' = "exit_load_failed" /\ UNCHANGED authors_to_remove
                 ELSE /\ authors_to_remove' = load_authors_from_csv(csv_rows)
                      /\ ppc' = "scan"
    /\ UNCHANGED <<music_path_exists, csv_file, music_before, music_now, folders_to_remove,
                   removed_folders, skipped_folders, response, pos>>
    /\ UNCHANGED <<normVars, catVars, resVars, walkVars, raceVars>>

\* main: scan_folders, which returns [] when listing the folder raises
PruneScan ==
    /\ ppc = "scan"
    /\ \E listdir_fails \in BOOLEAN :
         folders_to_remove' =
            IF listdir_fails THEN <<>> ELSE scan_folders(music_now, authors_to_remove)
    /\ ppc' = IF folders_to_remove' = <<>> THEN "exit_no_match" ELSE "dry_run"
    /\ UNCHANGED <<music_path_exists, csv_file, music_before, music_now, authors_to_remove,
                   removed_folders, skipped_folders, response, pos>>
    /\ UNCHANGED <<normVars, catVars, resVars, walkVars, raceVars>>

PruneState == [listing |-> music_now, removed |-> removed_folders, skipped |-> skipped_folders]

PruneBecomes(p) ==
    /\ music_now' = p.listing
    /\ removed_folders' = p.removed
    /\ skipped_folders' = p.skipped

\* remove_folders(folders_to_remove, dry_run=True): one iteration
DryRunStep ==
    /\ ppc = "dry_run"
    /\ pos < Len(folders_to_remove)
    /\ PruneBecomes(remove_one(PruneState, folders_to_remove[pos + 1], TRUE, FALSE))
    /\ pos' = pos + 1
    /\ UNCHANGED <<music_path_exists, csv_file, music_before, authors_to_remove,
                   folders_to_remove, response, ppc>>
    /\ UNCHANGED <<normVars, catVars, resVars, walkVars, raceVars>>

\* the dry run is over: the summary is printed and the prompt shown
DryRunEnd ==
    /\ ppc = "dry_run"
    /\ pos = Len(folders_to_remove)
    /\ ppc' = "prompt"
    /\ UNCHANGED <<music_path_exists, csv_file, music_before, music_now, authors_to_remove,
                   folders_to_remove, removed_folders, skipped_folders, response, pos>>
    /\ UNCHANGED <<normVars, catVars, resVars, walkVars, raceVars>>

\* the cleared bookkeeping lists
\* a plausible slip: the lists are not cleared before the actual run
ResetLists_keep(removed, skipped) == [removed |-> removed, skipped |-> skipped]

ResetLists(removed, skipped) == [removed |-> <<>>, skipped |-> <<>>]

\* the list the actual run of remove_folders is called with: main's local
\* folders_to_remove, as the scan before the dry run left it
\* a plausible slip: the folder is scanned again for the actual run
RemovalArgument_rescan(candidates, listing, authors) == scan_folders(listing, authors)

RemovalArgument(candidates, listing, authors) == candidates

\* what the user may type
Responses == {<<"y">>, <<"Y">>, <<"n">>, <<"y","e","s">>, <<>>, <<" ","y">>}

\* main: the answer to the prompt
Answer ==
    /\ ppc = "prompt"
    /\ \E r \in Responses :
         /\ response' = r
         /\ IF Confirmed(r)
            THEN /\ removed_folders' = ResetLists(removed_folders, skipped_folders).removed
                 /\ skipped_folders' = ResetLists(removed_folders, skipped_folders).skipped
                 /\ folders_to_remove' =
                       RemovalArgument(folders_to_remove, music_now, authors_to_remove)
                 /\ pos' = 0
                 /\ ppc' = "remove"
            ELSE /\ ppc' = "cancelled"
                 /\ UNCHANGED <<removed_folders, skipped_folders, folders_to_remove, pos>>
    /\ UNCHANGED <<music_path_exists, csv_file, music_before, music_now, authors_to_remove>>
    /\ UNCHANGED <<normVars, catVars, resVars, walkVars, raceVars>>

\* remove_folders(folders_to_remove, dry_run=False): one iteration
RemoveStep ==
    /\ ppc = "remove"
    /\ pos < Len(folders_to_remove)
    /\ \E fails \in BOOLEAN :
         PruneBecomes(remove_one(PruneState, folders_to_remove[pos + 1], FALSE, fails))
    /\ pos' = pos + 1
    /\ UNCHANGED <<music_path_exists, csv_file, music_before, authors_to_remove,
                   folders_to_remove, response, ppc>>
    /\ UNCHANGED <<normVars, catVars, resVars, walkVars, raceVars>>

\* the actual removal is over
RemoveEnd ==
    /\ ppc = "remove"
    /\ pos = Len(folders_to_remove)
    /\ ppc' = "done"
    /\ UNCHANGED <<music_path_exists, csv_file, music_before, music_now, authors_to_remove,
                   folders_to_remove, removed_folders, skipped_folders, response, pos>>
    /\ UNCHANGED <<normVars, catVars, resVars, walkVars, raceVars>>

-----------------------------------------------------------------------------
(* Idle values: the variables of the parts a specification does not run *)

NormIdle ==
    /\ arg = NoneValue
    /\ out1 = <<>>
    /\ out2 = <<>>
    /\ npc = "idle"

ResIdle ==
    /\ filepath = <<>>
    /\ book_key = NoneValue
    /\ rpc = "idle"

CatIdle ==
    /\ csv_rows = <<>>
    /\ audiobooks = <<>>

WalkIdle ==
    /\ engine = "none"
    /\ mp3_files = <<>>
    /\ src_tags = <<>>
    /\ index = 0
    /\ dest = <<>>
    /\ dest_dirs = {}
    /\ processed_files = <<>>
    /\ skipped_files = <<>>
    /\ processed_artists = {}
    /\ copy_log = <<>>
    /\ fusions = <<>>
    /\ faults = <<>>
    /\ wpc = "idle"

RaceIdle == walkers = <<>>

PruneIdle ==
    /\ music_path_exists = FALSE
    /\ csv_file = "missing"
    /\ music_before = <<>>
    /\ music_now = <<>>
    /\ authors_to_remove = {}
    /\ folders_to_remove = <<>>
    /\ removed_folders = <<>>
    /\ skipped_folders = <<>>
    /\ response = <<>>
    /\ pos = 0
    /\ ppc = "idle"

-----------------------------------------------------------------------------
(* SpecNorm: clean_string applied to an argument, then to its own result *)

JRRTolkien == <<"J",".","R",".","R","."," ","T","o","l","k","i","e","n">>
jrrtolkien_spaced == <<"j"," ","r"," ","r"," ","t","o","l","k","i","e","n">>
jrrtolkien_joined == <<"j","r","r"," ","t","o","l","k","i","e","n">>

NormAlphabet == {"a", "B", ".", " ", "\t", "_"}

NormSamples == {JRRTolkien, jrrtolkien_spaced, jrrtolkien_joined, Lower(JRRTolkien)}

NormArgs ==
    {NoneValue} \cup {Some(s) : s \in StringsUpTo(NormAlphabet, MaxLen) \cup NormSamples}

InitNorm ==
    /\ arg \in NormArgs
    /\ out1 = <<>>
    /\ out2 = <<>>
    /\ npc = "start"
    /\ CatIdle /\ ResIdle /\ WalkIdle /\ PruneIdle /\ RaceIdle

NormalizeOnce ==
    /\ npc = "start"
    /\ out1' = clean_string(arg)
    /\ npc' = "once"
    /\ UNCHANGED <<arg, out2, catVars, resVars, walkVars, pruneVars, raceVars>>

NormalizeTwice ==
    /\ npc = "once"
    /\ out2' = clean_string(Some(out1))
    /\ npc' = "twice"
    /\ UNCHANGED <<arg, out1, catVars, resVars, walkVars, pruneVars, raceVars>>

NextNorm == NormalizeOnce \/ NormalizeTwice

SpecNorm == InitNorm /\ [][NextNorm]_vars

-----------------------------------------------------------------------------
(* SpecResolve: a catalog is loaded and one path resolved against it *)

ResTitles == StringsUpTo({"a"}, MaxTitleLen) \cup {<<"B">>, <<".">>, <<"a"," ","B">>}
ResAuthors == {<<"x">>, <<"Y",".">>}
ResRows == {Row(t, a, <<>>, <<>>) : t \in ResTitles, a \in ResAuthors}
ResCatalogs == UNION {[1..k -> ResRows] : k \in 0..MaxRows}
ResFilenames == {<<"0","1"," ","A","b">> \o dot_mp3, <<"b"," ","-"," ","z">> \o dot_mp3,
                 <<"a","_","b">> \o dot_mp3, <<"?">>}
ResParents == {<<"X">>, <<"q"," ","y">>}
ResPaths == {<<<<"Music">>, p, f>> : p \in ResParents, f \in ResFilenames}

InitResolve ==
    /\ csv_rows \in ResCatalogs
    /\ filepath \in ResPaths
    /\ audiobooks = <<>>
    /\ book_key = NoneValue
    /\ rpc = "load"
    /\ NormIdle /\ WalkIdle /\ PruneIdle /\ RaceIdle

ResLoad ==
    /\ rpc = "load"
    /\ audiobooks' = LoadRows(csv_rows, <<>>)
    /\ rpc' = "resolve"
    /\ UNCHANGED <<csv_rows, filepath, book_key, normVars, walkVars, pruneVars, raceVars>>

ResResolve ==
    /\ rpc = "resolve"
    /\ book_key' = find_matching_audiobook(filepath, audiobooks)
    /\ rpc' = "done"
    /\ UNCHANGED <<catVars, filepath, normVars, walkVars, pruneVars, raceVars>>

NextResolve == ResLoad \/ ResResolve

SpecResolve == InitResolve /\ [][NextResolve]_vars

-----------------------------------------------------------------------------
(* SpecWalk: one run of either walker over a small library *)

dir1 == <<"d","1">>
dir2 == <<"d","2">>
a_mp3 == <<"a">> \o dot_mp3
a_1_mp3 == <<"a","_","1">> \o dot_mp3
b_mp3 == <<"b">> \o dot_mp3
z_MP3 == <<"z",".","M","P","3">>
a_txt == <<"a",".","t","x","t">>

Text(s) == <<s>>
Opaque == <<<<"#">>>>

TagsA ==
    (Key("TIT2") :> Text(<<"t">>)) @@ (Key("TPE1") :> Text(<<"X">>)) @@
    (Key("TALB") :> Text(<<"A">>)) @@ (<<"CHAP", "ch0">> :> Opaque) @@
    (<<"APIC", "">> :> Opaque)

TagsB ==
    (Key("TPE1") :> Text(<<"X">>)) @@ (Key("TALB") :> Text(<<"A">>)) @@
    (<<"CTOC", "toc">> :> Opaque) @@ (<<"CHAP", "ch1">> :> Opaque) @@
    (<<"TXXX", "note">> :> Text(<<"n">>))

TagsC == (Key("TPE1") :> Text(<<"X">>)) @@ (Key("TALB") :> Text(<<"A">>))

SourceFile(path, tags) == [path |-> path, tags |-> tags]

WalkSources ==
    {SourceFile(<<dir1, a_mp3>>, TagsOnDisk(TRUE, TagsA)),
     SourceFile(<<dir2, a_mp3>>, TagsOnDisk(TRUE, TagsB)),
     SourceFile(<<dir1, a_1_mp3>>, TagsOnDisk(TRUE, TagsC)),
     SourceFile(<<dir2, z_MP3>>, TagsOnDisk(TRUE, TagsC)),
     SourceFile(<<dir2, a_1_mp3>>, TagsOnDisk(FALSE, EmptyFrames)),
     SourceFile(<<dir1, b_mp3>>, TagsOnDisk(TRUE, EmptyFrames)),
     SourceFile(<<dir1, a_txt>>, TagsOnDisk(FALSE, EmptyFrames))}

\* the traversals: sequences of files with pairwise distinct paths
Traversals(files) ==
    {t \in UNION {[1..k -> files] : k \in 0..MaxFiles} :
        \A i, j \in DOMAIN t : i # j => t[i].path # t[j].path}

RowA == Row(<<"A">>, <<"X">>, <<"N">>, <<>>)
RowB == Row(<<"B","!">>, <<"Y">>, <<>>, <<"S">>)
RowA2 == Row(<<"a",".">>, <<"Z">>, <<"N">>, <<>>)
RowDot == Row(<<".">>, <<"Y">>, <<>>, <<>>)

WalkCatalogs == {<<RowA, RowB>>, <<RowB, RowA, RowA2>>, <<RowDot, RowA>>}

\* what audiobooks_dir holds before the run
BookDirXA == <<<<"X">>, <<"A">>>>
DestBefore ==
    {[files |-> <<>>, dirs |-> {}],
     [files |-> (BookDirXA \o <<a_mp3>>) :> [origin |-> 0, tags |-> TagsOnDisk(TRUE, TagsC)],
      dirs |-> {<<<<"X">>>>, BookDirXA}]}

InitWalk ==
    /\ engine \in {"organize", "liberate"}
    /\ \E t \in Traversals(WalkSources) :
         /\ mp3_files = [i \in DOMAIN t |-> t[i].path]
         /\ src_tags = [i \in DOMAIN t |-> t[i].tags]
         \* glob's pattern *.mp3 yields no other file
         /\ engine = "organize" => \A i \in DOMAIN t : EndsWith(Basename(t[i].path), dot_mp3)
    /\ \E d \in DestBefore :
         /\ dest = d.files
         /\ dest_dirs = d.dirs
    /\ csv_rows \in (IF engine = "liberate" THEN WalkCatalogs ELSE {<<>>})
    /\ audiobooks = <<>>
    /\ index = 0
    /\ processed_files = <<>>
    /\ skipped_files = <<>>
    /\ processed_artists = {}
    /\ copy_log = <<>>
    /\ fusions = <<>>
    /\ faults = <<>>
    /\ wpc = IF engine = "liberate" THEN "load" ELSE "walk"
    /\ NormIdle /\ ResIdle /\ PruneIdle /\ RaceIdle

NextWalk == LoadCatalog \/ OrganizeFile \/ PassOver \/ LiberateFile \/ WalkEnd

SpecWalk == InitWalk /\ [][NextWalk]_vars

-----------------------------------------------------------------------------
(* SpecPrune: one prune run over a small music folder *)

JaneDoe == <<"J","a","n","e"," ","D","o","e">>
janedoe == <<"j","a","n","e"," ","d","o","e">>
JaneDoeson == <<"J","a","n","e"," ","D","o","e","s","o","n">>
JRRoe_Al == <<"J","."," ","R","."," ","R","o","e",","," ","A","l">>
JRRoe_nodots == <<"J"," ","R"," ","R","o","e">>
Al_padded == <<" ","A","l"," ">>

Dir(name) == [name |-> name, isdir |-> TRUE]
PlainFile(name) == [name |-> name, isdir |-> FALSE]

MusicEntries ==
    {Dir(JaneDoe), Dir(janedoe), Dir(JaneDoeson), Dir(JRRoe_nodots), Dir(Al_padded),
     PlainFile(JaneDoe)}

Listings ==
    {l \in UNION {[1..k -> MusicEntries] : k \in 0..MaxDirs} :
        \A i, j \in DOMAIN l : i # j => l[i].name # l[j].name}

PruneCatalogs ==
    {<<Row(<<"A">>, JaneDoe, <<>>, <<>>)>>,
     <<Row(<<"A">>, JaneDoe, <<>>, <<>>), Row(<<"B">>, JRRoe_Al, <<>>, <<>>)>>,
     <<Row(<<"C">>, <<" ",",">>, <<>>, <<>>)>>}

InitPrune ==
    /\ music_path_exists \in BOOLEAN
    /\ csv_file \in {"missing", "bad", "ok"}
    /\ csv_rows \in PruneCatalogs
    /\ audiobooks = <<>>
    /\ music_before \in Listings
    /\ music_now = music_before
    /\ authors_to_remove = {}
    /\ folders_to_remove = <<>>
    /\ removed_folders = <<>>
    /\ skipped_folders = <<>>
    /\ response = <<>>
    /\ pos = 0
    /\ ppc = "start"
    /\ NormIdle /\ ResIdle /\ WalkIdle /\ RaceIdle

NextPrune ==
    PruneStart \/ PruneScan \/ DryRunStep \/ DryRunEnd \/ Answer \/ RemoveStep \/ RemoveEnd

SpecPrune == InitPrune /\ [][NextPrune]_vars

\* input() blocks for as long as the user takes to answer; the music folder
\* belongs to the file system and other programs may add, delete or replace
\* its entries meanwhile: here, once, an entry appears, an entry goes, or
\* a directory gives way to a plain file of its name
MusicChanges ==
    /\ ppc = "prompt"
    /\ music_now = music_before
    /\ \/ \E e \in MusicEntries :
             /\ \A k \in DOMAIN music_now : music_now[k].name # e.name
             /\ music_now' = Append(music_now, e)
       \/ \E k \in DOMAIN music_now :
             music_now' = SubSeq(music_now, 1, k - 1) \o SubSeq(music_now, k + 1, Len(music_now))
       \/ \E k \in DOMAIN music_now :
             /\ music_now[k].isdir
             /\ music_now' = [music_now EXCEPT ![k] = PlainFile(music_now[k].name)]
    /\ UNCHANGED <<music_path_exists, csv_file, music_before, authors_to_remove,
                   folders_to_remove, removed_folders, skipped_folders, response, pos, ppc>>
    /\ UNCHANGED <<normVars, catVars, resVars, walkVars, raceVars>>

NextPruneShared ==
    \/ PruneStart \/ PruneScan \/ DryRunStep \/ DryRunEnd \/ MusicChanges
    \/ Answer \/ RemoveStep \/ RemoveEnd

\* the prune run with a music folder that changes while the prompt waits
SpecPruneShared == InitPrune /\ [][NextPruneShared]_vars

-----------------------------------------------------------------------------
(* SpecRace: one or two organize runs, each its own process, on the same
   audiobooks_dir.  Nothing in organize_file locks the directory, so the
   processes interleave between any two file-system calls.  A call that
   raises ends the file as skipped, as SpecWalk has it; here every call
   succeeds, which is the run in which the processes meet. *)

Pids == {1, 2}

RacePool ==
    <<SourceFile(<<dir1, a_mp3>>, TagsOnDisk(TRUE, TagsA)),
      SourceFile(<<dir2, a_mp3>>, TagsOnDisk(TRUE, TagsB)),
      SourceFile(<<dir1, a_1_mp3>>, TagsOnDisk(TRUE, TagsC)),
      SourceFile(<<dir1, b_mp3>>, TagsOnDisk(TRUE, EmptyFrames))>>

\* what one process's glob may yield: files of the pool, in the pool's order
RaceTodos ==
    {t \in UNION {[1..k -> DOMAIN RacePool] : k \in 1..MaxFiles} :
        \A i, j \in DOMAIN t : i < j => t[i] < t[j]}

\* a process about to call organize_file on the first file of its list
WalkerStart(todo) ==
    [todo |-> todo, at |-> 0, pc |-> "plan", metadata |-> NoneID3, book_dir |-> <<>>,
     new_filepath |-> <<>>, counter |-> 0, seen |-> 0,
     processed |-> <<>>, skipped |-> <<>>, artists |-> {}]

\* process_libation_folder's loop moves to the next file
Advance(w) ==
    [w EXCEPT !.at = @ + 1, !.pc = IF w.at + 1 = Len(w.todo) THEN "done" ELSE "plan"]

InitRace ==
    /\ engine = "organize"
    /\ mp3_files = [i \in DOMAIN RacePool |-> RacePool[i].path]
    /\ src_tags = [i \in DOMAIN RacePool |-> RacePool[i].tags]
    /\ \E running \in {{1}, Pids} : walkers \in [running -> {WalkerStart(t) : t \in RaceTodos}]
    /\ \E d \in DestBefore :
         /\ dest = d.files
         /\ dest_dirs = d.dirs
    /\ csv_rows = <<>>
    /\ audiobooks = <<>>
    /\ index = 0
    /\ processed_files = <<>>
    /\ skipped_files = <<>>
    /\ processed_artists = {}
    /\ copy_log = <<>>
    /\ fusions = <<>>
    /\ faults = <<>>
    /\ wpc = "processes"
    /\ NormIdle /\ ResIdle /\ PruneIdle

\* organize_file up to the while loop: the tags are read, the directories
\* made, the first candidate path formed
WalkerPlan ==
    \E p \in DOMAIN walkers :
        LET w == walkers[p]
            i == w.todo[w.at + 1]
            source_path == mp3_files[i]
            got == get_metadata(src_tags[i], FALSE)
            metadata == got.metadata
            book_info == get_book_info(metadata)
            artist_dir == <<book_info.artist>>
            book_dir == <<book_info.artist, book_info.album>>
            filename == Basename(source_path)
        IN /\ w.pc = "plan"
           /\ src_tags' = [src_tags EXCEPT ![i] = got.disk]
           /\ IF ~Truthy(metadata)
              THEN /\ walkers' = [walkers EXCEPT ![p] =
                                     Advance([w EXCEPT !.skipped = Append(@, source_path)])]
                   /\ UNCHANGED dest_dirs
              ELSE /\ dest_dirs' = dest_dirs \cup {artist_dir, book_dir}
                   /\ walkers' = [walkers EXCEPT ![p] =
                                     [w EXCEPT !.pc = "exists", !.metadata = metadata,
                                               !.book_dir = book_dir,
                                               !.new_filepath = book_dir \o <<filename>>,
                                               !.counter = 1]]
           /\ UNCHANGED <<engine, mp3_files, index, dest, processed_files, skipped_files,
                          processed_artists, copy_log, fusions, faults, wpc>>
           /\ UNCHANGED <<normVars, catVars, resVars, pruneVars>>

\* one evaluation of the while condition, and the loop body when it holds
WalkerExists ==
    \E p \in DOMAIN walkers :
        LET w == walkers[p]
            filename == Basename(mp3_files[w.todo[w.at + 1]])
            base == SplitExt(filename)[1]
            ext == SplitExt(filename)[2]
        IN /\ w.pc = "exists"
           /\ walkers' = [walkers EXCEPT ![p] =
                 IF Exists(w.new_filepath)
                 THEN [w EXCEPT !.new_filepath =
                                   w.book_dir \o <<base \o <<"_">> \o IntToStr(w.counter) \o ext>>,
                                !.counter = @ + 1]
                 ELSE [w EXCEPT !.pc = "copy", !.seen = Len(copy_log)]]
           /\ UNCHANGED <<walkVars, normVars, catVars, resVars, pruneVars>>

\* shutil.copy2(source_path, new_filepath)
WalkerCopy ==
    \E p \in DOMAIN walkers :
        LET w == walkers[p]
            i == w.todo[w.at + 1]
        IN /\ w.pc = "copy"
           /\ dest' = CopyTo(dest, w.new_filepath, i)
           /\ copy_log' = Append(copy_log,
                                 [src |-> i, path |-> w.new_filepath,
                                  existed |-> w.new_filepath \in DOMAIN dest,
                                  by |-> p, seen |-> w.seen])
           /\ walkers' = [walkers EXCEPT ![p] = [w EXCEPT !.pc = "save"]]
           /\ UNCHANGED <<engine, mp3_files, src_tags, index, dest_dirs, processed_files,
                          skipped_files, processed_artists, fusions, faults, wpc>>
           /\ UNCHANGED <<normVars, catVars, resVars, pruneVars>>

\* update_audiobook_metadata(new_filepath, metadata) and the bookkeeping
WalkerSave ==
    \E p \in DOMAIN walkers :
        LET w == walkers[p]
            i == w.todo[w.at + 1]
            book_info == get_book_info(w.metadata)
        IN /\ w.pc = "save"
           /\ dest' = WriteTags(dest, w.new_filepath,
                                update_audiobook_metadata(w.metadata.frames))
           /\ walkers' = [walkers EXCEPT ![p] =
                             Advance([w EXCEPT !.processed = Append(@, mp3_files[i]),
                                               !.artists = @ \cup {book_info.artist}])]
           /\ UNCHANGED <<engine, mp3_files, src_tags, index, dest_dirs, processed_files,
                          skipped_files, processed_artists, copy_log, fusions, faults, wpc>>
           /\ UNCHANGED <<normVars, catVars, resVars, pruneVars>>

NextRace == WalkerPlan \/ WalkerExists \/ WalkerCopy \/ WalkerSave

SpecRace == InitRace /\ [][NextRace]_vars

-----------------------------------------------------------------------------
(* Properties *)

\* how often x occurs in the list
Count(list, x) == Cardinality({i \in DOMAIN list : list[i] = x})

\* C1: files with the same name copied into one book directory get distinct
\* destination paths, and no copy lands on a path that already holds a file
\* (checked for both walkers).
C1_NeverOverwrites ==
    /\ \A k \in DOMAIN copy_log : ~copy_log[k].existed
    /\ \A j, k \in DOMAIN copy_log : j # k => copy_log[j].path # copy_log[k].path

\* C2: nothing is deleted up to and including the prompt; a directory is gone
\* only in a run whose answer lowercases to "y"; any other answer ends the run
\* in the cancelled state with the music folder as it was.
C2_DeleteOnlyAfterYes ==
    /\ ppc \notin {"remove", "done"} => music_now = music_before
    /\ ppc \in {"remove", "done"} => Lower(response) = <<"y">>
    /\ music_now # music_before => Lower(response) = <<"y">>
    /\ (ppc = "cancelled") => Lower(response) # <<"y">> /\ music_now = music_before

C2_Witness ==
    /\ ppc = "done"
    /\ response = <<"Y">>
    /\ music_now # music_before
    /\ removed_folders # <<>>

\* C3: the walk visits every file the traversal yields whatever failed before,
\* and each audio file it has visited is recorded once, in the processed list
\* or in the skipped list.
AudioFiles ==
    {i \in DOMAIN mp3_files : engine = "organize" \/ IsMp3(Basename(mp3_files[i]))}

\* what the lists hold for file i: the path (organize) or the file name (liberate)
EntryOf(i) == IF engine = "organize" THEN mp3_files[i] ELSE Basename(mp3_files[i])

C3_EachFileRecordedOnce ==
    /\ index <= Len(mp3_files)
    /\ Len(faults) = index
    /\ wpc = "done" => index = Len(mp3_files)
    /\ Len(processed_files) + Len(skipped_files)
         = Cardinality({i \in AudioFiles : i <= index})
    /\ \A i \in AudioFiles : i <= index =>
         Count(processed_files, EntryOf(i)) + Count(skipped_files, EntryOf(i))
           = Cardinality({j \in AudioFiles : j <= index /\ EntryOf(j) = EntryOf(i)})

C3_Witness ==
    /\ wpc = "done"
    /\ Len(mp3_files) = 2
    /\ faults = <<TRUE, FALSE>>
    /\ Len(skipped_files) = 1
    /\ Len(processed_files) = 1

\* C4: when the actual removal has ended, every candidate was attempted and is
\* in one list, once: removed when its directory is gone, skipped when the
\* deletion failed; the lists hold nothing else.
C4_EveryCandidateInOneList ==
    /\ ppc = "remove" => Len(removed_folders) + Len(skipped_folders) = pos
    /\ ppc = "done" =>
         /\ pos = Len(folders_to_remove)
         /\ Len(removed_folders) + Len(skipped_folders) = Len(folders_to_remove)
         /\ \A k \in DOMAIN folders_to_remove :
              LET c == folders_to_remove[k]
              IN /\ Count(removed_folders, c) + Count(skipped_folders, c) = 1
                 /\ Count(removed_folders, c) = 1 <=> ~HasDir(music_now, c)

C4_Witness ==
    /\ ppc = "done"
    /\ Len(folders_to_remove) = 2
    /\ skipped_folders = <<folders_to_remove[1]>>
    /\ removed_folders = <<folders_to_remove[2]>>

\* C5: find_matching_audiobook returns a key only of a record for which a
\* documented condition holds, and returns None exactly when no record
\* satisfies one.
DocumentedCondition(book, path) ==
    LET t == clean_string(Some(book.title))
        a == clean_string(Some(book.author))
        f == clean_string(Some(Basename(path)))
        d == clean_string(Some(Basename(Dirname(path))))
    IN \/ IsSubstring(t, f) /\ IsSubstring(a, d)
       \/ IsSubstring(t, f)
       \/ IsSubstring(a, d) /\ IsSubstring(t, f)

C5_ReturnsOnlyMatchingRecord ==
    rpc = "done" =>
        /\ ~book_key.none =>
             /\ HasKey(audiobooks, book_key.s)
             /\ DocumentedCondition(DictGet(audiobooks, book_key.s), filepath)
        /\ book_key.none <=>
             \A i \in DOMAIN audiobooks : ~DocumentedCondition(audiobooks[i].book, filepath)

C5_Witness ==
    /\ rpc = "done"
    /\ Len(audiobooks) = 2
    /\ ~book_key.none
    /\ book_key.s = audiobooks[2].key
    /\ IsSubstring(clean_string(Some(audiobooks[1].book.author)),
                   clean_string(Some(Basename(Dirname(filepath)))))

\* C6: every completed fusion leaves the chapter and table-of-contents frames
\* of its input as they were: same keys, same content, none added.
ChapterKeys(frames) == {k \in DOMAIN frames : k[1] \in {"CHAP", "CTOC"}}

C6_ChapterFramesPreserved ==
    \A k \in DOMAIN fusions :
        /\ ChapterKeys(fusions[k].output) = ChapterKeys(fusions[k].input)
        /\ \A c \in ChapterKeys(fusions[k].input) :
             fusions[k].output[c] = fusions[k].input[c]

C6_Witness ==
    \E k \in DOMAIN fusions :
        /\ engine = "organize"
        /\ <<"CTOC", "toc">> \in DOMAIN fusions[k].input
        /\ <<"CHAP", "ch1">> \in DOMAIN fusions[k].input
        /\ <<"TXXX", "note">> \in DOMAIN fusions[k].input
        /\ dest[fusions[k].path].tags.frames = fusions[k].output

\* C7 as stated: every fusion, of either walker, writes the chapter frames of
\* its input plus the frames the engine sets, and nothing else.
CoreKeys == {Key("TIT2"), Key("TPE1"), Key("TALB"), Key("TCON"), Key("TMED"), Key("TCMP")}
NarratorKeys == {Key("TPE2"), Key("TCOM")}

C8_UntaggedFileProcessed ==
    \A i \in 1..index :
        (/\ engine = "organize"
         /\ src_tags[i].frames = EmptyFrames
         /\ ~faults[i])
        => /\ Count(processed_files, mp3_files[i]) = 1
           /\ Count(skipped_files, mp3_files[i]) = 0

\* C9 as stated: "J.R.R. Tolkien" and "j r r tolkien" normalize to the same key.
C9_TolkienSpaced ==
    (npc # "start" /\ arg = Some(JRRTolkien)) => out1 = clean_string(Some(jrrtolkien_spaced))

\* C9 as amended: clean_string ignores case and punctuation - the key of a
\* string is the key of its lowercase form and of the string without its
\* punctuation - so "J.R.R. Tolkien" has the key "jrr tolkien" of
\* "jrr tolkien"; punctuation is deleted, not turned into a space, and
\* "j r r tolkien" keeps its own key.
C9_CaseAndPunctuation ==
    (npc # "start" /\ ~arg.none) =>
        /\ out1 = clean_string(Some(Lower(arg.s)))
        /\ out1 = clean_string(Some(StripPunct(arg.s)))
        /\ arg.s = JRRTolkien =>
             out1 = jrrtolkien_joined /\ out1 = clean_string(Some(jrrtolkien_joined))
        /\ arg.s = jrrtolkien_spaced => out1 = jrrtolkien_spaced

C9_Witness ==
    /\ npc = "once"
    /\ arg = Some(JRRTolkien)
    /\ out1 = jrrtolkien_joined

\* C10: clean_string applied to its own result returns that result; None and
\* the empty string give the empty string.
C10_Idempotent ==
    /\ npc = "twice" => out2 = out1
    /\ (npc # "start" /\ (arg.none \/ arg.s = <<>>)) => out1 = <<>>

C10_Witness ==
    /\ npc = "twice"
    /\ arg = Some(<<".", " ", "a">>)
    /\ out1 = <<"a">>
    /\ out2 = <<"a">>

-----------------------------------------------------------------------------
(* The catalog index and the resolver as a title-only search *)

\* C11: once the catalog is loaded, each cleaned title of the file is a key of
\* the dict exactly once, its value is built from the last row of the file
\* with that cleaned title, the dict has no other key, and every key is the
\* cleaned title of the value stored under it.
C11_LastWriteWins ==
    rpc # "load" =>
        LET keys == [r \in DOMAIN csv_rows |-> clean_string(Some(csv_rows[r].Title))]
        IN /\ \A i, j \in DOMAIN audiobooks :
                 audiobooks[i].key = audiobooks[j].key => i = j
           /\ \A i \in DOMAIN audiobooks :
                 /\ audiobooks[i].key = clean_string(Some(audiobooks[i].book.title))
                 /\ \E r \in DOMAIN csv_rows : keys[r] = audiobooks[i].key
           /\ \A r \in DOMAIN csv_rows :
                 LET last == CHOOSE q \in DOMAIN csv_rows :
                                /\ keys[q] = keys[r]
                                /\ \A q2 \in DOMAIN csv_rows : keys[q2] = keys[r] => q2 <= q
                 IN /\ HasKey(audiobooks, keys[r])
                    /\ DictGet(audiobooks, keys[r]) = BookOf(csv_rows[last])

\* two rows with different raw titles and different authors share a key
C11_Witness ==
    /\ rpc # "load"
    /\ Len(csv_rows) = 2
    /\ csv_rows[1].Title # csv_rows[2].Title
    /\ csv_rows[1].Authors # csv_rows[2].Authors
    /\ Len(audiobooks) = 1
    /\ audiobooks[1].book = BookOf(csv_rows[2])

\* the resolver the result is compared with: the key of the first entry, in
\* insertion order, whose cleaned title occurs in the cleaned file name
TitleOnlyResolver(path, books) ==
    LET clean_filename == clean_string(Some(Basename(path)))
        hits == {i \in DOMAIN books :
                    IsSubstring(clean_string(Some(books[i].book.title)), clean_filename)}
    IN IF hits = {} THEN NoneValue
       ELSE Some(books[CHOOSE i \in hits : \A j \in hits : i <= j].key)

\* C16: find_matching_audiobook returns what the title-only search returns,
\* whatever the parent folder and the authors are; an entry whose cleaned
\* title is empty matches every file, so with one present the result is
\* never None.
C16_TitleAloneDecides ==
    rpc = "done" =>
        /\ book_key = TitleOnlyResolver(filepath, audiobooks)
        /\ (\E i \in DOMAIN audiobooks : clean_string(Some(audiobooks[i].book.title)) = <<>>)
               => ~book_key.none

\* the first entry is returned although its author is not in the parent
\* folder's name, while the second entry's title and author both occur
C16_Witness ==
    /\ rpc = "done"
    /\ Len(audiobooks) = 2
    /\ book_key = Some(audiobooks[1].key)
    /\ clean_string(Some(audiobooks[1].book.title)) = <<>>
    /\ ~IsSubstring(clean_string(Some(audiobooks[1].book.author)),
                    clean_string(Some(Basename(Dirname(filepath)))))
    /\ IsSubstring(clean_string(Some(audiobooks[2].book.author)),
                   clean_string(Some(Basename(Dirname(filepath)))))
    /\ IsSubstring(clean_string(Some(audiobooks[2].book.title)),
                   clean_string(Some(Basename(filepath))))
    /\ audiobooks[2].key # <<>>

-----------------------------------------------------------------------------
(* Prune matching *)

\* the five spellings of a folder's name that are looked up
FiveVariants(name) ==
    {Strip(name), Lower(Strip(name)), Remove(Strip(name), "."), Remove(Strip(name), ","),
     StripPunct(Lower(Strip(name)))}

\* the subdirectories of the listing with a spelling in the author set, in
\* listing order
WholeNameMatches(listing) ==
    LET hit(e) == e.isdir /\ FiveVariants(e.name) \cap authors_to_remove # {}
        hits == SelectSeq(listing, hit)
    IN [i \in DOMAIN hits |-> hits[i].name]

\* C12: the candidates are the subdirectories of the music folder one of
\* whose five spellings is an element of the author set (a scan that
\* cannot list the folder yields none); a name that only contains an author's
\* name is no candidate.  With "Jane Doe" among the authors, the directories
\* "Jane Doe" and "jane doe" are candidates and the actual removal deletes
\* them unless rmtree fails, and "Jane Doeson" stays.
C12_WholeNameMembership ==
    /\ folders_to_remove \in {<<>>, WholeNameMatches(music_before)}
    /\ ppc \in {"dry_run", "prompt", "remove", "cancelled", "done"} =>
          /\ folders_to_remove = WholeNameMatches(music_before)
          /\ folders_to_remove # <<>>
    /\ \A k \in DOMAIN folders_to_remove : folders_to_remove[k] # JaneDoeson
    /\ HasDir(music_before, JaneDoeson) => HasDir(music_now, JaneDoeson)
    /\ (JaneDoe \in authors_to_remove /\ ppc \in {"dry_run", "prompt", "remove", "cancelled", "done"}) =>
          \A name \in {JaneDoe, janedoe} :
             HasDir(music_before, name) =>
                /\ Count(folders_to_remove, name) = 1
                /\ ppc = "done" =>
                      \/ ~HasDir(music_now, name) /\ Count(removed_folders, name) = 1
                      \/ HasDir(music_now, name) /\ Count(skipped_folders, name) = 1

\* "jane doe" is deleted and "Jane Doeson", listed before it, is still there
C12_Witness ==
    /\ ppc = "done"
    /\ JaneDoe \in authors_to_remove
    /\ music_before = <<Dir(JaneDoeson), Dir(janedoe)>>
    /\ music_now = <<Dir(JaneDoeson)>>
    /\ removed_folders = <<janedoe>>

-----------------------------------------------------------------------------
(* The list the actual removal works from *)

\* the names in a list
Names(list) == {list[k] : k \in DOMAIN list}

\* C15 as stated: what the actual removal works on is what matches when it
\* runs.  When it starts, its list is the whole-name matches of the music
\* folder as it is then; when it has ended, every matching subdirectory still
\* in the folder is one whose deletion was tried and failed.
C15_RematchesAtRemoval ==
    /\ (ppc = "remove" /\ pos = 0) => folders_to_remove = WholeNameMatches(music_now)
    /\ ppc = "done" =>
          \A name \in Names(WholeNameMatches(music_now)) : name \in Names(skipped_folders)

\* C15, amended: the actual removal works through the candidate list of the
\* one scan made before the dry run, whatever the music folder holds by then:
\* the list is the whole-name matches of the folder as scanned, only its
\* entries are deleted or recorded as skipped, and a candidate that is no
\* longer a directory when its turn comes is recorded as skipped.
C15_RemovesScannedList ==
    ppc \in {"remove", "done"} =>
        /\ folders_to_remove = WholeNameMatches(music_before)
        /\ Names(removed_folders) \subseteq Names(folders_to_remove)
        /\ Names(skipped_folders) \subseteq Names(folders_to_remove)
        /\ \A k \in 1..pos :
              folders_to_remove[k] \in Names(removed_folders) \cup Names(skipped_folders)
        /\ \A name \in Names(removed_folders) : ~HasDir(music_now, name)

\* "jane doe" appeared while the prompt waited: it matches and is still there
\* after the removal, which deleted "Jane Doe" from the scanned list
C15_Witness ==
    /\ ppc = "done"
    /\ music_before = <<Dir(JaneDoe)>>
    /\ folders_to_remove = <<JaneDoe>>
    /\ removed_folders = <<JaneDoe>>
    /\ music_now = <<Dir(janedoe)>>
    /\ should_remove_folder(janedoe, authors_to_remove)

-----------------------------------------------------------------------------
(* The planned destination name *)

\* the copies of the log that wrote to path p
CopiesTo(p) == {m \in DOMAIN copy_log : copy_log[m].path = p}

\* did p exist under audiobooks_dir when copy n of the log was planned?  No
\* file is ever deleted there, so p existed then when an earlier copy wrote
\* it or when it was there before the run.
ExistedBefore(n, p) ==
    \/ p \in dest_dirs
    \/ /\ p \in DOMAIN dest
       /\ \/ CopiesTo(p) = {}
          \/ LET first == CHOOSE m \in CopiesTo(p) : \A m2 \in CopiesTo(p) : m <= m2
             IN first < n \/ copy_log[first].existed

\* the name with _k put before its extension
Numbered(filename, k) ==
    SplitExt(filename)[1] \o <<"_">> \o IntToStr(k) \o SplitExt(filename)[2]

\* C13: every copy goes to the original file name when that name was unused
\* in the book directory, and otherwise to the name with _k before the
\* extension for the smallest k >= 1 whose name was unused; k is at most one
\* more than the number of files there, so the scan ends (both walkers).
C13_SmallestFreeName ==
    \A n \in DOMAIN copy_log :
        LET book_dir == Dirname(copy_log[n].path)
            filename == Basename(mp3_files[copy_log[n].src])
        IN IF ~ExistedBefore(n, book_dir \o <<filename>>)
           THEN copy_log[n].path = book_dir \o <<filename>>
           ELSE \E k \in 1..(Cardinality(DOMAIN dest) + 1) :
                   /\ copy_log[n].path = book_dir \o <<Numbered(filename, k)>>
                   /\ ~ExistedBefore(n, copy_log[n].path)
                   /\ \A j \in 1..(k - 1) :
                         ExistedBefore(n, book_dir \o <<Numbered(filename, j)>>)

-----------------------------------------------------------------------------
(* Concurrent organize runs *)

\* copy n of the log landed on a file that was there
Overwrote(n) == copy_log[n].existed

\* C14: a copy lands on an existing file only when two processes run and the
\* other process wrote that very path after this process saw the path free
\* and before this process copied; a process running alone never overwrites.
C14_OverwriteOnlyByRace ==
    \A n \in DOMAIN copy_log :
        Overwrote(n) =>
            /\ Cardinality(DOMAIN walkers) = 2
            /\ \E m \in (copy_log[n].seen + 1)..(n - 1) :
                  /\ copy_log[m].path = copy_log[n].path
                  /\ copy_log[m].by # copy_log[n].by

\* two processes copied d1/a.mp3 and d2/a.mp3 to the same path, the second
\* copy replacing the first
C14_Witness ==
    \E m, n \in DOMAIN copy_log :
        /\ m < n
        /\ Overwrote(n)
        /\ ~Overwrote(m)
        /\ copy_log[m].path = copy_log[n].path
        /\ copy_log[m].by # copy_log[n].by
        /\ copy_log[m].src # copy_log[n].src
        /\ Basename(mp3_files[copy_log[m].src]) = Basename(mp3_files[copy_log[n].src])
        /\ dest[copy_log[n].path].origin = copy_log[n].src


=============================================================================
